---- MODULE Spec2Model ----
\* The geometric core of the hanamaru path tracer: the BVH builder and
\* traversal (bvh.rs), the primitive intersection tests (bvh.rs, scene.rs)
\* and the "up" vector choice of the BRDF samplers (brdf.rs).
\*
\* Numbers.  The program computes in f64.
\*   - inputs (vertices, ray origins and directions, centres, radii) are
\*     integers, which f64 represents exactly;
\*   - a computed scalar is [n, d, k, x]: the f64 value that lies k * 2^x
\*     above the f64 nearest to n/d, where n/d has d > 0 and is in lowest
\*     terms and k is odd, or k = 0 and x = 0 for the nearest f64 itself;
\*     n/d is +infinity for [1,0], -infinity for [-1,0], NaN for [0,0];
\*   - intersect_polygon's t, u and v are products by a rounded reciprocal:
\*     their two roundings are computed bit for bit (TimesRecip), and so
\*     are the sum u + v and the comparisons;
\*   - the position origin + direction * t of every intersection test, and
\*     the plane's uv taken from it, are computed bit for bit (Times, Plus,
\*     Modulo1);
\*   - sums, products and quotients elsewhere (FAdd, FMul, Rat) are taken
\*     as the f64 nearest to the exact result (k = 0);
\*   - a normalized vector is [x, y, z, s], standing for (x,y,z)/sqrt(s).
\* Overflow of f64 is outside the model.
EXTENDS Integers, Sequences, FiniteSets, TLC

\* ------------------------------------------------------------------ bounds
\* Meshes of 0..MaxFaces faces are built and queried.
MaxFaces == 12
\* Intersection calls made on one Hit Record before it is discarded.
MaxCalls == 2

\* Longest list of scene elements
MaxElements == 3

\* ----------------------------------------------------------------- numbers
Abs(a) == IF a < 0 THEN -a ELSE a

Sign(a) == IF a < 0 THEN -1 ELSE IF a > 0 THEN 1 ELSE 0

RECURSIVE GCD(_, _)
GCD(a, b) == IF b = 0 THEN a ELSE GCD(b, a % b)

\* n/d as an f64 value; a zero divisor gives what IEEE-754 division gives.
Rat(n, d) ==
    IF d = 0 THEN [n |-> Sign(n), d |-> 0, k |-> 0, x |-> 0]
    ELSE LET g == GCD(Abs(n), Abs(d))
         IN  [n |-> Sign(d) * (n \div g), d |-> Abs(d) \div g, k |-> 0, x |-> 0]

FromInt(i) == [n |-> i, d |-> 1, k |-> 0, x |-> 0]

IsNaN(a) == a.n = 0 /\ a.d = 0

\* a.k * 2^a.x < b.k * 2^b.x
OffsetLt(a, b) ==
    IF a.k = 0 \/ b.k = 0 \/ Sign(a.k) # Sign(b.k) THEN a.k < b.k
    ELSE IF a.x >= b.x THEN a.k * 2^(a.x - b.x) < b.k
    ELSE a.k < b.k * 2^(b.x - a.x)

\* a < b on f64: false whenever an operand is NaN.
FLt(a, b) ==
    IF IsNaN(a) \/ IsNaN(b) THEN FALSE
    ELSE IF a.d = 0 /\ b.d = 0 THEN a.n < b.n
    ELSE IF a.d = 0 THEN a.n < 0
    ELSE IF b.d = 0 THEN b.n > 0
    ELSE \/ a.n * b.d < b.n * a.d
         \/ a.n * b.d = b.n * a.d /\ OffsetLt(a, b)

FGt(a, b) == FLt(b, a)

FLe(a, b) == ~IsNaN(a) /\ ~IsNaN(b) /\ ~FLt(b, a)

\* f64::min and f64::max: the other operand when one is NaN.
FMin(a, b) == IF IsNaN(a) THEN b ELSE IF IsNaN(b) THEN a ELSE IF FLt(b, a) THEN b ELSE a

FMax(a, b) == IF IsNaN(a) THEN b ELSE IF IsNaN(b) THEN a ELSE IF FLt(a, b) THEN b ELSE a

FAdd(a, b) ==
    IF IsNaN(a) \/ IsNaN(b) THEN Rat(0, 0)
    ELSE IF a.d = 0 /\ b.d = 0 THEN (IF a.n = b.n THEN a ELSE Rat(0, 0))
    ELSE IF a.d = 0 THEN a
    ELSE IF b.d = 0 THEN b
    ELSE Rat(a.n * b.d + b.n * a.d, a.d * b.d)

FNeg(a) == [n |-> -a.n, d |-> a.d, k |-> -a.k, x |-> a.x]

FSub(a, b) == FAdd(a, FNeg(b))

FMul(a, b) ==
    IF IsNaN(a) \/ IsNaN(b) THEN Rat(0, 0)
    ELSE IF a.d = 0 \/ b.d = 0 THEN Rat(Sign(a.n) * Sign(b.n), 0)
    ELSE Rat(a.n * b.n, a.d * b.d)

\* f64::recip of an integer-valued float (1/0.0 is +infinity).
Recip(i) == IF i = 0 THEN Rat(1, 0) ELSE Rat(1, i)

\* The number of binary digits of a > 0 (0 for 0).
RECURSIVE BitLen(_)
BitLen(a) == IF a = 0 THEN 0 ELSE 1 + BitLen(a \div 2)

\* h * h * 2^bit modulo m
SquareMod(h, bit, m) == (((h * h) % m) * (IF bit = 1 THEN 2 ELSE 1)) % m

\* 2^e modulo m
RECURSIVE PowMod2(_, _)
PowMod2(e, m) == IF e = 0 THEN 1 % m ELSE SquareMod(PowMod2(e \div 2, m), e % 2, m)

\* a * 2^c < b, = b or > b, for c of either sign: -1, 0 or 1.
CompareScaled(a, c, b) ==
    IF c >= 0 THEN Sign(a * 2^c - b) ELSE Sign(a - b * 2^(-c))

\* The integer part of Fn / Fd, for Fd > 0.
Floor(Fn, Fd) == IF Fn >= 0 THEN Fn \div Fd ELSE -((Fd - 1 - Fn) \div Fd)

\* The arithmetic of f64, bit for bit, on small integers.  An f64 near the
\* fraction a/b > 0 is an integer T times 2^-g, where g = 52 - E and
\* 2^E <= a/b < 2^(E+1) put X = a * 2^g / b in [2^52, 2^53).  X itself is
\* too large to write down; what matters of it is w = a * 2^g modulo 2b:
\* rem = w % b is the fractional part of X in b-ths, and w >= b says that
\* the integer part Xf of X is odd.

\* The fractions r and s added, and r times 2^c.
QAdd(r, s) == Rat(r.n * s.d + s.n * r.d, r.d * s.d)

QScale(r, c) ==
    IF r.n = 0 THEN r ELSE IF c >= 0 THEN Rat(r.n * 2^c, r.d) ELSE Rat(r.n, r.d * 2^(-c))

\* E: 2^E <= a/b < 2^(E+1)
Binade(a, b) ==
    IF CompareScaled(b, BitLen(a) - BitLen(b), a) <= 0
    THEN BitLen(a) - BitLen(b) ELSE BitLen(a) - BitLen(b) - 1

\* a * 2^g modulo 2b
Mantissa(a, b, g) == ((a % (2 * b)) * PowMod2(g, 2 * b)) % (2 * b)

\* The f64 k * 2^x away from the f64 nearest to q, with k made odd.
RECURSIVE Stepped(_, _, _)
Stepped(q, k, x) ==
    IF k = 0 THEN q
    ELSE IF k % 2 = 0 THEN Stepped(q, k \div 2, x + 1)
    ELSE [q EXCEPT !.k = k, !.x = x]

\* The exact value of a finite f64 V = [n, d, k, x] is n/d + r * 2^e: the
\* rounding error of n/d, (1 - rem/b or -rem/b) * 2^-g, and the offset.
ExactSum(V, g, rho) ==
    IF V.k = 0 THEN [r |-> rho, e |-> -g]
    ELSE IF V.x <= -g THEN [r |-> QAdd(QScale(rho, -g - V.x), FromInt(V.k)), e |-> V.x]
    ELSE [r |-> QAdd(rho, FromInt(V.k * 2^(V.x + g))), e |-> -g]

ExactRem(V, b, g, rem) ==
    ExactSum(V, g, Rat(Sign(V.n) * ((IF 2 * rem > b THEN b ELSE 0) - rem), b))

ExactAt(V, a, b, g) == ExactRem(V, b, g, Mantissa(a, b, g) % b)

Exact(V) ==
    IF V.n = 0 THEN [r |-> FromInt(V.k), e |-> V.x]
    ELSE IF V.d = 1 /\ V.k = 0 THEN [r |-> FromInt(0), e |-> 0]
    ELSE ExactAt(V, Abs(V.n), V.d, 52 - Binade(Abs(V.n), V.d))

\* The f64 nearest to the real q + r * 2^e, ties to even, for fractions q
\* and r.  With rr = r signed as q and F = rem/b + rr * 2^(e+g), the real
\* is Xf + F on the scale 2^-g, rounded to T = Xf + steps.  low: q is a
\* power of two and the real lies below it, in the binade underneath.
RoundSteps(q, b, low, g, rem, steps) ==
    Stepped(q, Sign(q.n) * (steps - (IF ~low /\ 2 * rem > b THEN 1 ELSE 0)), -g)

RoundTie(q, b, low, g, rem, odd, F, down, rest) ==
    RoundSteps(q, b, low, g, rem,
               down + (IF 2 * rest > F.d \/ (2 * rest = F.d /\ (odd + Abs(down)) % 2 = 1)
                       THEN 1 ELSE 0))

RoundFloor(q, b, low, g, rem, odd, F, down) ==
    RoundTie(q, b, low, g, rem, odd, F, down, F.n - down * F.d)

RoundFraction(q, b, low, g, rem, odd, F) ==
    RoundFloor(q, b, low, g, rem, odd, F, Floor(F.n, F.d))

RoundMantissa(q, b, rr, e, low, g, w) ==
    RoundFraction(q, b, low, g, w % b, w \div b, QAdd(Rat(w % b, b), QScale(rr, e + g)))

RoundScale(q, a, b, rr, e, low, g) ==
    RoundMantissa(q, b, rr, e, low, g, Mantissa(a, b, g))

RoundLow(q, a, b, rr, e, E, low) ==
    RoundScale(q, a, b, rr, e, low, 52 - (IF low THEN E - 1 ELSE E))

RoundBinade(q, a, b, rr, e, E) ==
    RoundLow(q, a, b, rr, e, E, rr.n < 0 /\ CompareScaled(b, E, a) = 0)

\* The real is r * 2^e alone: the exact result of f64 operands, an f64.
RoundZero(r, e) == Stepped(FromInt(0), r.n, e - (BitLen(r.d) - 1))

Round(q, r, e) ==
    IF r.n = 0 THEN q
    ELSE IF q.n = 0 THEN RoundZero(r, e)
    ELSE RoundBinade(q, Abs(q.n), q.d, IF q.n > 0 THEN r ELSE FNeg(r), e, Binade(Abs(q.n), q.d))

\* i * V in f64, for an integer i and an f64 V
TimesExact(i, V, ex) == Round(Rat(i * V.n, V.d), Rat(i * ex.r.n, ex.r.d), ex.e)

Times(i, V) ==
    IF V.d = 0 THEN FMul(FromInt(i), V)
    ELSE IF i = 0 THEN FromInt(0)
    ELSE IF i = 1 THEN V
    ELSE IF i = -1 THEN FNeg(V)
    ELSE TimesExact(i, V, Exact(V))

\* U + V in f64, both rounded: the errors are added on the finer scale.
PlusAligned(U, V, eu, ev, e) ==
    Round(QAdd(U, V),
          QAdd(QScale(eu.r, eu.e - e), QScale(ev.r, ev.e - e)), e)

PlusExact(U, V, eu, ev) ==
    PlusAligned(U, V, eu, ev,
                IF eu.r.n = 0 THEN ev.e ELSE IF ev.r.n = 0 \/ eu.e < ev.e THEN eu.e ELSE ev.e)

Plus(U, V) ==
    IF U.d = 0 \/ V.d = 0 THEN FAdd(U, V) ELSE PlusExact(U, V, Exact(U), Exact(V))

\* n * d.recip() in f64, for integers n and d # 0: the reciprocal is rounded
\* to 53 bits, the product is rounded again.  It is Times(n, Recip(d)),
\* computed in one pass.  With a = |n|, b = |d|:
\*   fl(1/b) = M / 2^p, M = (2^p + eps) / b the integer nearest to 2^p / b
\*             in [2^52, 2^53);
\*   a * M / 2^s lies in [2^52, 2^53) and is rounded to the integer T, ties
\*             to even; the product is T * 2^(s-p);
\*   a * M / 2^s = X + a * eps / (b * 2^s) with X = a * 2^(p-s) / b, the
\*             exact quotient on the same scale, of floor Xf = X - rem / b.
\* The steps below pass on what they computed; the last gives the product,
\* T - Xf steps of 2^(s-p) above the floor and one less above the nearest
\* when that is the ceiling.
Product(n, d, b, p, s, rem, steps) ==
    Stepped(Rat(n, d), Sign(n) * Sign(d) * (steps - (IF 2 * rem > b THEN 1 ELSE 0)), s - p)

\* T - Xf = down + 1 or down: to nearest, ties to even.
RoundEven(n, d, b, p, s, rem, odd, Fd, down, rest) ==
    Product(n, d, b, p, s, rem,
            down + (IF 2 * rest > Fd \/ (2 * rest = Fd /\ (odd + down + 2) % 2 = 1) THEN 1 ELSE 0))

\* down = floor(Fn / Fd), the rest is Fn - down * Fd.
RoundDown(n, d, b, p, s, rem, odd, Fn, Fd, down) ==
    RoundEven(n, d, b, p, s, rem, odd, Fd, down, Fn - down * Fd)

\* a * M / 2^s - Xf = Fn / Fd
Fraction(n, d, b, p, s, rem, odd, Fn, Fd) ==
    RoundDown(n, d, b, p, s, rem, odd, Fn, Fd, Floor(Fn, Fd))

\* w = a * 2^(p-s) modulo 2b: rem = w % b, and Xf is odd when w >= b.
Quotient(n, d, a, b, p, s, eps, w) ==
    Fraction(n, d, b, p, s, w % b, w \div b, (w % b) * 2^s + a * eps, b * 2^s)

\* s: a * M / 2^s in [2^52, 2^53)
Scale(n, d, a, b, p, s0, h, eps, s) ==
    Quotient(n, d, a, b, p, s, eps,
             ((a % (2 * b)) * (IF s = s0 THEN (2 * h) % (2 * b) ELSE h)) % (2 * b))

\* eps = M * b - 2^p
Nearest(n, d, a, b, p, s0, h, eps) ==
    Scale(n, d, a, b, p, s0, h, eps,
          IF CompareScaled(a, p - 53 - s0, b) + (IF eps >= 0 THEN 1 ELSE 0) > 0
          THEN s0 + 1 ELSE s0)

\* r0 = 2^p modulo b
Remainder(n, d, a, b, p, s0, h, r0) ==
    Nearest(n, d, a, b, p, s0, h, IF 2 * r0 <= b THEN -r0 ELSE b - r0)

\* h = 2^(p-s0-1) modulo 2b, from which 2^p, 2^(p-s0) and 2^(p-s) follow
Powers(n, d, a, b, p, s0, h) ==
    Remainder(n, d, a, b, p, s0, h, (((2 * h) % b) * (2^s0 % b)) % b)

\* p: 2^p / b in [2^52, 2^53); s0: 2^s0 <= a < 2^(s0+1)
Exponents(n, d, a, b, p, s0) ==
    Powers(n, d, a, b, p, s0, PowMod2(p - s0 - 1, 2 * b))

Magnitudes(n, d, a, b, bits) ==
    Exponents(n, d, a, b, 52 + (IF 2^(bits - 1) = b THEN bits - 1 ELSE bits), BitLen(a) - 1)

TimesRecip(n, d) ==
    IF n = 0 THEN FromInt(0)
    ELSE Magnitudes(n, d, Abs(n), Abs(d), BitLen(Abs(d)))

\* The program evaluates strictly, TLC lazily: Strict(v, e) is e, with v
\* evaluated first.  It keeps the loops below from piling up unevaluated
\* accumulators.
Strict(v, e) == IF v = v THEN e ELSE e

\* F(v) with v evaluated once, as a `let v = ..;` of the program is.
Bind(v, F(_)) == CHOOSE y \in {F(x) : x \in {v}} : TRUE

\* config::INF / consts::INF: the "no hit yet" distance, +infinity.
INF == Rat(1, 0)

\* ----------------------------------------------------------------- vectors
\* Vector3::new
Vector3(x, y, z) == [x |-> x, y |-> y, z |-> z]

\* Vector3::zero, as a computed (f64) vector
Vector3Zero == Vector3(FromInt(0), FromInt(0), FromInt(0))

\* Vector2::zero
Vector2Zero == [x |-> FromInt(0), y |-> FromInt(0)]

\* impl Sub for Vector3
Sub(a, b) == Vector3(a.x - b.x, a.y - b.y, a.z - b.z)

\* impl Neg for Vector3
Neg(a) == Vector3(-a.x, -a.y, -a.z)

\* Vector3::dot
Dot(a, b) == a.x * b.x + a.y * b.y + a.z * b.z

\* Vector3::cross
Cross(a, b) ==
    Vector3(a.y * b.z - a.z * b.y, a.z * b.x - a.x * b.z, a.x * b.y - a.y * b.x)

\* Vector3::norm
Norm(a) == a.x * a.x + a.y * a.y + a.z * a.z

\* A unit vector (x,y,z)/sqrt(s).  The zero vector of Intersection::empty is
\* written with s = 1; s = 0 stands for the NaN vector.
UVec(x, y, z, s) == [x |-> x, y |-> y, z |-> z, s |-> s]

\* Vector3::normalize of an integer vector: every component times
\* 1/sqrt(norm).  All positive multiples of a vector normalize to one value;
\* the zero vector gives 0 * infinity = NaN in every component.
Normalize(a) ==
    LET g == GCD(GCD(Abs(a.x), Abs(a.y)), Abs(a.z))
    IN  IF g = 0 THEN UVec(0, 0, 0, 0)
        ELSE LET p == Vector3(a.x \div g, a.y \div g, a.z \div g)
             IN  UVec(p.x, p.y, p.z, Norm(p))

\* math::det: the determinant of the 3x3 matrix of three vectors.
det(a, b, c) ==
    (a.x * b.y * c.z) + (a.y * b.z * c.x) + (a.z * b.x * c.y)
    - (a.x * b.z * c.y) - (a.y * b.x * c.z) - (a.z * b.y * c.x)

\* -------------------------------------------------------------------- mesh
\* scene::Mesh: vertexes and faces; a face is three indices into vertexes.
\* Indices are the program's (from 0); a TLA+ sequence is read at index + 1.
Face(v0, v1, v2) == [v0 |-> v0, v1 |-> v1, v2 |-> v2]

VertexOf(mesh, i) == mesh.vertexes[i + 1]

FaceOf(mesh, face_index) == mesh.faces[face_index + 1]

\* The meshes checked: a strip of n triangles, face k joining vertexes k,
\* k+1, k+2.  One coordinate (the long one) runs over 0..12 out of order, so
\* that the builder's sort has work to do; the others alternate 0 and 2.
\* The layout says which axis is the long one; layout 3 makes x and y
\* equally long, the case with no strictly dominant axis.  Every vertex
\* coordinate is an even integer.
Long(i) == 2 * ((5 * i) % 7)

Alt(i) == 2 * (i % 2)

Alt2(i) == 2 * ((i \div 2) % 2)

StripVertex(layout, i) ==
    CASE layout = 0 -> Vector3(Long(i), Alt(i), Alt2(i))
      [] layout = 1 -> Vector3(Alt(i), Long(i), Alt2(i))
      [] layout = 2 -> Vector3(Alt2(i), Alt(i), Long(i))
      [] OTHER      -> Vector3(Long(i), Long(i + 3), Alt(i) + Alt2(i))

StripMesh(n) ==
    [vertexes |-> [i \in 1..(IF n = 0 THEN 0 ELSE n + 2) |-> StripVertex(n % 4, i - 1)],
     faces    |-> [k \in 1..n |-> Face(k - 1, k, k + 1)]]

Meshes == {StripMesh(n) : n \in 0..MaxFaces}

\* -------------------------------------------------------------- BVH builder
\* scene::Aabb
Aabb(left_bottom, right_top) == [left_bottom |-> left_bottom, right_top |-> right_top]

\* BvhNode::empty
BvhNodeEmpty ==
    [aabb         |-> Aabb(Vector3(INF, INF, INF), Vector3(FNeg(INF), FNeg(INF), FNeg(INF))),
     children     |-> <<>>,
     face_indexes |-> <<>>]

\* Mutant: the third vertex of the face is left out.
GrowAabbTwoVertexes(aabb, mesh, face_index) ==
    LET face == FaceOf(mesh, face_index)
        v0 == VertexOf(mesh, face.v0)
        v1 == VertexOf(mesh, face.v1)
        lo(c, a, b) == FMin(FMin(c, FromInt(a)), FromInt(b))
        hi(c, a, b) == FMax(FMax(c, FromInt(a)), FromInt(b))
    IN  [left_bottom |-> Vector3(lo(aabb.left_bottom.x, v0.x, v1.x),
                                 lo(aabb.left_bottom.y, v0.y, v1.y),
                                 lo(aabb.left_bottom.z, v0.z, v1.z)),
         right_top   |-> Vector3(hi(aabb.right_top.x, v0.x, v1.x),
                                 hi(aabb.right_top.y, v0.y, v1.y),
                                 hi(aabb.right_top.z, v0.z, v1.z))]

\* One iteration of the loop of BvhNode::set_aabb: the box grown by a face.
GrowAabb(aabb, mesh, face_index) ==
    LET face == FaceOf(mesh, face_index)
        v0 == VertexOf(mesh, face.v0)
        v1 == VertexOf(mesh, face.v1)
        v2 == VertexOf(mesh, face.v2)
        lo(c, a, b, d) == FMin(FMin(FMin(c, FromInt(a)), FromInt(b)), FromInt(d))
        hi(c, a, b, d) == FMax(FMax(FMax(c, FromInt(a)), FromInt(b)), FromInt(d))
    IN  Aabb(Vector3(lo(aabb.left_bottom.x, v0.x, v1.x, v2.x),
                     lo(aabb.left_bottom.y, v0.y, v1.y, v2.y),
                     lo(aabb.left_bottom.z, v0.z, v1.z, v2.z)),
             Vector3(hi(aabb.right_top.x, v0.x, v1.x, v2.x),
                     hi(aabb.right_top.y, v0.y, v1.y, v2.y),
                     hi(aabb.right_top.z, v0.z, v1.z, v2.z)))

\* BvhNode::set_aabb: the node's box after the loop over face_indexes.
RECURSIVE set_aabb(_, _, _)
set_aabb(aabb, mesh, face_indexes) ==
    IF face_indexes = <<>> THEN aabb
    ELSE LET grown == GrowAabb(aabb, mesh, Head(face_indexes))
         IN  Strict(grown, set_aabb(grown, mesh, Tail(face_indexes)))

\* The sort key of a face: the sum of its three vertices' coordinates on an
\* axis ("x", "y" or "z").
Coord(v, axis) == IF axis = "x" THEN v.x ELSE IF axis = "y" THEN v.y ELSE v.z

FaceSum(mesh, face_index, axis) ==
    LET face == FaceOf(mesh, face_index)
    IN  Coord(VertexOf(mesh, face.v0), axis) + Coord(VertexOf(mesh, face.v1), axis)
        + Coord(VertexOf(mesh, face.v2), axis)

\* The axis from_face_indexes sorts on: the one whose extent strictly exceeds
\* both others, z when there is none.
SplitAxis(aabb) ==
    LET lx == FSub(aabb.right_top.x, aabb.left_bottom.x)
        ly == FSub(aabb.right_top.y, aabb.left_bottom.y)
        lz == FSub(aabb.right_top.z, aabb.left_bottom.z)
    IN  IF FGt(lx, ly) /\ FGt(lx, lz) THEN "x"
        ELSE IF FGt(ly, lx) /\ FGt(ly, lz) THEN "y"
        ELSE "z"

\* Vec::sort_by with the comparison of sums: a stable ascending sort.
RECURSIVE InsertStable(_, _, _, _)
InsertStable(sorted, face_index, mesh, axis) ==
    IF sorted = <<>> THEN <<face_index>>
    ELSE IF FaceSum(mesh, face_index, axis) < FaceSum(mesh, sorted[Len(sorted)], axis)
         THEN Append(InsertStable(SubSeq(sorted, 1, Len(sorted) - 1), face_index, mesh, axis),
                     sorted[Len(sorted)])
         ELSE Append(sorted, face_index)

\* Mutant: the list is left in the order given.
SortByUnsorted(face_indexes, mesh, axis) == face_indexes

RECURSIVE SortBy(_, _, _)
SortBy(face_indexes, mesh, axis) ==
    IF face_indexes = <<>> THEN <<>>
    ELSE InsertStable(SortBy(SubSeq(face_indexes, 1, Len(face_indexes) - 1), mesh, axis),
                      face_indexes[Len(face_indexes)], mesh, axis)

\* Mutant: mid < 2 in place of mid <= 2.
IsLeafSizeStrict(len) == (len \div 2) < 2

\* The test of from_face_indexes that makes a leaf: mid = len / 2, mid <= 2.
IsLeafSize(len) == (len \div 2) <= 2

\* BvhNode::from_face_indexes
RECURSIVE from_face_indexes(_, _)
\* Mutant: the face indices are stored before the leaf test, so an Internal
\* node keeps them too.
from_face_indexesKeepsFaces(mesh, face_indexes) ==
    LET aabb == set_aabb(BvhNodeEmpty.aabb, mesh, face_indexes)
        mid  == Len(face_indexes) \div 2
    IN  IF IsLeafSize(Len(face_indexes))
        THEN [aabb |-> aabb, children |-> <<>>, face_indexes |-> face_indexes]
        ELSE LET sorted == SortBy(face_indexes, mesh, SplitAxis(aabb))
             IN  [aabb         |-> aabb,
                  children     |-> <<from_face_indexes(mesh, SubSeq(sorted, 1, mid)),
                                     from_face_indexes(mesh, SubSeq(sorted, mid + 1, Len(sorted)))>>,
                  face_indexes |-> face_indexes]

from_face_indexes(mesh, face_indexes) ==
    LET aabb == set_aabb(BvhNodeEmpty.aabb, mesh, face_indexes)
        mid  == Len(face_indexes) \div 2
    IN  IF IsLeafSize(Len(face_indexes))
        THEN [aabb |-> aabb, children |-> <<>>, face_indexes |-> face_indexes]
        ELSE LET sorted == SortBy(face_indexes, mesh, SplitAxis(aabb))
                 \* split_off(mid): face_indexes keeps [0, mid), the rest moves out
                 kept == SubSeq(sorted, 1, mid)
                 left_face_indexes == SubSeq(sorted, mid + 1, Len(sorted))
             IN  [aabb         |-> aabb,
                  children     |-> <<from_face_indexes(mesh, kept),
                                     from_face_indexes(mesh, left_face_indexes)>>,
                  face_indexes |-> <<>>]

\* Mutant: the range of face indices stops one short of faces.len().
from_meshSkipsLast(mesh) ==
    from_face_indexes(mesh, [i \in 1..(Len(mesh.faces) - 1) |-> i - 1])

\* BvhNode::from_mesh
from_mesh(mesh) ==
    from_face_indexes(mesh, [i \in 1..Len(mesh.faces) |-> i - 1])

\* The calls of from_face_indexes made while from_face_indexes(mesh,
\* face_indexes) runs, itself included: each with the list it was given and
\* the node it returned.
RECURSIVE BuildCalls(_, _)
BuildCalls(mesh, face_indexes) ==
    LET node == from_face_indexes(mesh, face_indexes)
        mid  == Len(face_indexes) \div 2
        sorted == SortBy(face_indexes, mesh, SplitAxis(node.aabb))
    IN  {[given |-> face_indexes, node |-> node]}
        \cup (IF node.children = <<>> THEN {}
              ELSE BuildCalls(mesh, SubSeq(sorted, 1, mid))
                   \cup BuildCalls(mesh, SubSeq(sorted, mid + 1, Len(sorted))))

\* ------------------------------------------------------------- hit record
\* scene::Ray
Ray(origin, direction) == [origin |-> origin, direction |-> direction]

\* Intersection::empty.  The material slot is filled by Scene::intersect
\* after the geometric query and is not touched by any intersection test.
IntersectionEmpty ==
    [hit      |-> FALSE,
     position |-> Vector3Zero,
     distance |-> INF,
     normal   |-> UVec(0, 0, 0, 1),
     uv       |-> Vector2Zero,
     material |-> "new"]

\* ray.origin + ray.direction * t, for an f64 t
PointAt(ray, t) ==
    Vector3(Plus(FromInt(ray.origin.x), Times(ray.direction.x, t)),
            Plus(FromInt(ray.origin.y), Times(ray.direction.y, t)),
            Plus(FromInt(ray.origin.z), Times(ray.direction.z, t)))

\* The result of an intersection call: what it returned and the Hit Record
\* it left.
Result(ret, intersection) == [ret |-> ret, intersection |-> intersection]

\* The last test of intersect_polygon: reject when t < 0 or t > distance.
RejectsT(t, distance) == FLt(t, FromInt(0)) \/ FGt(t, distance)

\* bvh::intersect_polygon
intersect_polygon(v0, v1, v2, ray, intersection) ==
    LET ray_inv == Neg(ray.direction)
        edge1 == Sub(v1, v0)
        edge2 == Sub(v2, v0)
        denominator == det(edge1, edge2, ray_inv)
        d == Sub(ray.origin, v0)
    IN  IF denominator = 0 THEN Result(FALSE, intersection)
        ELSE Bind(TimesRecip(det(d, edge2, ray_inv), denominator), LAMBDA u :
             IF FLt(u, FromInt(0)) \/ FGt(u, FromInt(1)) THEN Result(FALSE, intersection)
             ELSE Bind(TimesRecip(det(edge1, d, ray_inv), denominator), LAMBDA v :
             IF FLt(v, FromInt(0)) \/ FGt(Plus(u, v), FromInt(1)) THEN Result(FALSE, intersection)
             ELSE Bind(TimesRecip(det(edge1, edge2, d), denominator), LAMBDA t :
             IF RejectsT(t, intersection.distance) THEN Result(FALSE, intersection)
             ELSE Result(TRUE,
                    [intersection EXCEPT
                        !.position = PointAt(ray, t),
                        !.normal   = Normalize(Cross(edge1, edge2)),
                        !.distance = t,
                        !.uv       = [x |-> u, y |-> v]]))))

\* intersect_polygon on a face of the mesh
IntersectFace(mesh, face_index, ray, intersection) ==
    LET face == FaceOf(mesh, face_index)
    IN  intersect_polygon(VertexOf(mesh, face.v0), VertexOf(mesh, face.v1),
                          VertexOf(mesh, face.v2), ray, intersection)

\* Aabb::intersect_ray, the slab test: per axis the two t-values
\* (corner - origin) * (1 / direction), the running [t_near, t_far] interval,
\* rejection when t_far < t_near or t_far < 0.
SlabNear(lo, hi, o, dir) ==
    FMin(FMul(FSub(lo, FromInt(o)), Recip(dir)), FMul(FSub(hi, FromInt(o)), Recip(dir)))

SlabFar(lo, hi, o, dir) ==
    FMax(FMul(FSub(lo, FromInt(o)), Recip(dir)), FMul(FSub(hi, FromInt(o)), Recip(dir)))

intersect_ray(aabb, ray) ==
    LET lb == aabb.left_bottom
        rt == aabb.right_top
        o  == ray.origin
        dr == ray.direction
        t_near == FMax(FMax(SlabNear(lb.x, rt.x, o.x, dr.x), SlabNear(lb.y, rt.y, o.y, dr.y)),
                       SlabNear(lb.z, rt.z, o.z, dr.z))
        t_far  == FMin(FMin(SlabFar(lb.x, rt.x, o.x, dr.x), SlabFar(lb.y, rt.y, o.y, dr.y)),
                       SlabFar(lb.z, rt.z, o.z, dr.z))
    IN  ~(FLt(t_far, t_near) \/ FLt(t_far, FromInt(0)))

\* The result of BvhNode::intersect, with the face tests it made, in order:
\* each the face index and what intersect_polygon returned.
Visit(ret, intersection, tests) ==
    [ret |-> ret, intersection |-> intersection, tests |-> tests]

\* The leaf loop of BvhNode::intersect over face_indexes[i..]
RECURSIVE LeafLoop(_, _, _, _, _)
LeafLoop(face_indexes, i, mesh, ray, acc) ==
    IF i > Len(face_indexes) THEN acc
    ELSE LET r == IntersectFace(mesh, face_indexes[i], ray, acc.intersection)
             next == Visit(acc.ret \/ r.ret, r.intersection,
                           Append(acc.tests, [face_index |-> face_indexes[i], ret |-> r.ret]))
         IN  Strict(next, LeafLoop(face_indexes, i + 1, mesh, ray, next))

\* BvhNode::intersect
RECURSIVE intersect(_, _, _, _)
\* The loop over children[i..]
RECURSIVE ChildLoop(_, _, _, _, _)
\* Mutant: the loop stops at the first child that reports a hit.
ChildLoopFirstHit(children, i, mesh, ray, acc) ==
    IF i > Len(children) \/ acc.ret THEN acc
    ELSE LET r == intersect(children[i], mesh, ray, acc.intersection)
             next == Visit(acc.ret \/ r.ret, r.intersection, acc.tests \o r.tests)
         IN  Strict(next, ChildLoop(children, i + 1, mesh, ray, next))

ChildLoop(children, i, mesh, ray, acc) ==
    IF i > Len(children) THEN acc
    ELSE LET r == intersect(children[i], mesh, ray, acc.intersection)
             next == Visit(acc.ret \/ r.ret, r.intersection, acc.tests \o r.tests)
         IN  Strict(next, ChildLoop(children, i + 1, mesh, ray, next))

\* Mutant: the bounding volume is not consulted.
intersectNoPrune(node, mesh, ray, intersection) ==
    IF node.children = <<>>
    THEN LeafLoop(node.face_indexes, 1, mesh, ray, Visit(FALSE, intersection, <<>>))
    ELSE ChildLoop(node.children, 1, mesh, ray, Visit(FALSE, intersection, <<>>))

intersect(node, mesh, ray, intersection) ==
    IF ~intersect_ray(node.aabb, ray) THEN Visit(FALSE, intersection, <<>>)
    ELSE IF node.children = <<>>
         THEN LeafLoop(node.face_indexes, 1, mesh, ray, Visit(FALSE, intersection, <<>>))
         ELSE ChildLoop(node.children, 1, mesh, ray, Visit(FALSE, intersection, <<>>))

\* ------------------------------------------------------ sphere and plane
\* f64::sqrt where the model can compute it: NaN below zero, the root of a
\* perfect square.
IsSquare(d) == \E r \in 0..d : r * r = d

Sqrt(d) == IF d < 0 THEN Rat(0, 0) ELSE FromInt(CHOOSE r \in 0..d : r * r = d)

\* Vector3::normalize of an f64 vector with finite components: the vector is
\* scaled to integers first, which does not change its direction.
NormalizeF(v) ==
    LET m == v.x.d * v.y.d * v.z.d
    IN  Normalize(Vector3(v.x.n * (m \div v.x.d), v.y.n * (m \div v.y.d), v.z.n * (m \div v.z.d)))

\* scene::Sphere (its material is not part of the geometric test)
Sphere(center, radius) == [center |-> center, radius |-> radius]

\* The discriminant of Sphere::intersect
SphereD(sphere, ray) ==
    LET a == Sub(ray.origin, sphere.center)
        b == Dot(a, ray.direction)
        c == Dot(a, a) - sphere.radius * sphere.radius
    IN  b * b - c

\* Mutant: the near root is accepted whatever the record's distance.
SphereIntersectAnyDistance(sphere, ray, intersection) ==
    LET a == Sub(ray.origin, sphere.center)
        b == Dot(a, ray.direction)
        c == Dot(a, a) - sphere.radius * sphere.radius
        d == b * b - c
        t == FSub(FromInt(-b), IF d < 0 \/ (\E r \in 0..d : r * r = d)
                                THEN (IF d < 0 THEN Rat(0, 0)
                                      ELSE FromInt(CHOOSE r \in 0..d : r * r = d))
                                ELSE Rat(0, 0))
    IN  IF d > 0 /\ FGt(t, FromInt(0))
        THEN Result(TRUE, [intersection EXCEPT
                              !.hit = TRUE, !.position = PointAt(ray, t), !.distance = t])
        ELSE Result(FALSE, intersection)

\* Sphere::intersect
SphereIntersect(sphere, ray, intersection) ==
    LET a == Sub(ray.origin, sphere.center)
        b == Dot(a, ray.direction)
        d == SphereD(sphere, ray)
        t == FSub(FromInt(-b), Sqrt(d))
        position == PointAt(ray, t)
        fromCenter == Vector3(FSub(position.x, FromInt(sphere.center.x)),
                              FSub(position.y, FromInt(sphere.center.y)),
                              FSub(position.z, FromInt(sphere.center.z)))
    IN  IF d > 0 /\ FGt(t, FromInt(0)) /\ FLt(t, intersection.distance)
        THEN Result(TRUE,
                    [intersection EXCEPT
                        !.hit      = TRUE,
                        !.position = position,
                        !.distance = t,
                        !.normal   = NormalizeF(fromCenter)])
        ELSE Result(FALSE, intersection)

\* scene::Plane
Plane(center, normal) == [center |-> center, normal |-> normal]

\* math::modulo(a, 1.0): a - floor(a) in f64.  The floor is that of the
\* f64 a, one less than a whole n/d when a lies below it.
Modulo1Exact(a, ex) ==
    Round(Rat(a.n - (Floor(a.n, a.d) - (IF a.d = 1 /\ ex.r.n < 0 THEN 1 ELSE 0)) * a.d, a.d),
          ex.r, ex.e)

Modulo1(a) == Modulo1Exact(a, Exact(a))

\* Plane::intersect
PlaneIntersect(plane, ray, intersection) ==
    LET d == -Dot(plane.center, plane.normal)
        v == Dot(ray.direction, plane.normal)
        t == Rat(-(Dot(ray.origin, plane.normal) + d), v)
        position == PointAt(ray, t)
    IN  IF FGt(t, FromInt(0)) /\ FLt(t, intersection.distance)
        THEN Result(TRUE,
                    [intersection EXCEPT
                        !.hit      = TRUE,
                        !.position = position,
                        !.normal   = UVec(plane.normal.x, plane.normal.y, plane.normal.z, 1),
                        !.distance = t,
                        !.uv       = [x |-> Modulo1(position.x), y |-> Modulo1(position.z)]])
        ELSE Result(FALSE, intersection)

\* ----------------------------------------------------------- BRDF sampling
\* consts::EPS: the small threshold of the samplers' degeneracy test.
EPS == Rat(1, 10000)

\* f64::abs
FAbs(a) == IF a.n < 0 \/ (a.n = 0 /\ a.d # 0 /\ a.k < 0) THEN FNeg(a) ELSE a

\* a / b for finite a and finite non-zero b
FDiv(a, b) == Rat(a.n * b.d, a.d * b.n)

\* f64::sqrt of a rational whose numerator and denominator are squares
IsSquareF(a) == a.d > 0 /\ a.n >= 0 /\ IsSquare(a.n) /\ IsSquare(a.d)

SqrtF(a) == Rat((CHOOSE r \in 0..a.n : r * r = a.n), (CHOOSE r \in 0..a.d : r * r = a.d))

\* Vector3::cross on f64 vectors
CrossF(a, b) ==
    Vector3(FSub(FMul(a.y, b.z), FMul(a.z, b.y)),
            FSub(FMul(a.z, b.x), FMul(a.x, b.z)),
            FSub(FMul(a.x, b.y), FMul(a.y, b.x)))

\* Vector3::new on integer-valued floats
Vector3F(x, y, z) == Vector3(FromInt(x), FromInt(y), FromInt(z))

\* Vector3::cross of an f64 vector with a normalized vector (x,y,z)/sqrt(s):
\* the vector v / sqrt(s).
CrossU(a, u) == [v |-> CrossF(a, Vector3F(u.x, u.y, u.z)), s |-> u.s]

\* cos and sin of consts::PI2 * r for r a whole number of quarter turns
CosTurn(r) == IF r = Rat(0, 1) THEN 1 ELSE IF r = Rat(1, 2) THEN -1 ELSE 0

SinTurn(r) == IF r = Rat(1, 4) THEN 1 ELSE IF r = Rat(3, 4) THEN -1 ELSE 0

\* Mutant: the degeneracy test reads the normal's y component.
UpDiffuseReadsY(normal) ==
    IF FGt(FAbs(normal.y), EPS) THEN Vector3F(0, 1, 0) ELSE Vector3F(1, 0, 0)

\* The "up" vector of importance_sample_diffuse
UpDiffuse(normal) ==
    IF FGt(FAbs(normal.x), EPS) THEN Vector3F(0, 1, 0) ELSE Vector3F(1, 0, 0)

\* The "up" vector of importance_sample_ggx
UpGgx(normal) ==
    IF FGt(FAbs(normal.x), EPS) THEN Vector3F(0, 1, 0) ELSE Vector3F(1, 0, 0)

\* What a sampler computed: its up vector, its basis, and the coordinates
\* of the returned vector on that basis; the vector returned is
\* coord[1] * tangent + coord[2] * binormal + coord[3] * normal.
Sampled(up, tangent, binormal, normal, coord) ==
    [up |-> up, tangent |-> tangent, binormal |-> binormal, normal |-> normal, coord |-> coord]

\* brdf::importance_sample_diffuse
importance_sample_diffuse(random, normal) ==
    LET up == UpDiffuse(normal)
        tangent == NormalizeF(CrossF(up, normal))
        binormal == CrossU(normal, tangent)
        phi == random[1]
        r == random[2]
    IN  Sampled(up, tangent, binormal, normal,
                <<FMul(FromInt(CosTurn(phi)), SqrtF(r)),
                  FMul(FromInt(SinTurn(phi)), SqrtF(r)),
                  SqrtF(FSub(FromInt(1), r))>>)

\* brdf::importance_sample_ggx
importance_sample_ggx(random, normal, roughness) ==
    LET a == roughness * roughness
        phi == random[1]
        cos_theta == SqrtF(FDiv(FSub(FromInt(1), random[2]),
                                FAdd(FromInt(1), FMul(FromInt(a * a - 1), random[2]))))
        sin_theta == SqrtF(FSub(FromInt(1), FMul(cos_theta, cos_theta)))
        h == Vector3(FMul(sin_theta, FromInt(CosTurn(phi))),
                     FMul(sin_theta, FromInt(SinTurn(phi))), cos_theta)
        up == UpGgx(normal)
        tangent_x == NormalizeF(CrossF(up, normal))
        tangent_y == CrossU(normal, tangent_x)
    IN  Sampled(up, tangent_x, tangent_y, normal, <<h.x, h.y, h.z>>)

\* ------------------------------------------------------------------ inputs
\* The normals sampled around: x at 0, half of, exactly, twice and far
\* above the threshold, with either sign; y and z in {-1, 0, 1}.
NormalXs ==
    {FromInt(0), FromInt(1), FromInt(-1)}
    \cup {Rat(k * EPS.n, 2 * EPS.d) : k \in {-4, -2, -1, 1, 2, 4}}

Normals ==
    {Vector3(x, FromInt(y), FromInt(z)) : x \in NormalXs, y, z \in {-1, 0, 1}}
    \ {Vector3F(0, 0, 0)}

\* The uniform pairs drawn: whole quarter turns, and radii with exact roots.
Randoms == {<<Rat(q, 4), r>> : q \in 0..3, r \in {Rat(0, 1), Rat(9, 25), Rat(16, 25)}}

Roughnesses == {0, 1}

\* The rays checked.  Where a direction component is zero the origin's
\* component is odd, so it differs from every (even) vertex coordinate: the
\* slab test then never meets 0 * infinity.
Directions == {Vector3(x, y, z) : x, y, z \in {-1, 0, 1}} \ {Vector3(0, 0, 0)}

\* From (3,3,3) along (0,1,1) two faces of the 7-face strip lie at the same
\* exact distance 3/5, which their products round to different f64 values;
\* from (1,1,1) along (-1,1,-1) the distance 7/9 is rounded down and the
\* position's x, 1 - t, is not the f64 nearest to 2/9.
Origins ==
    {Vector3(1, 1, 1), Vector3(2, 2, 2), Vector3(3, 3, 3)}

OffGrid(o, dir) == dir = 0 => o % 2 = 1

Rays ==
    {r \in {Ray(o, d) : o \in Origins, d \in Directions} :
        /\ OffGrid(r.origin.x, r.direction.x)
        /\ OffGrid(r.origin.y, r.direction.y)
        /\ OffGrid(r.origin.z, r.direction.z)}

Spheres == {Sphere(Vector3(3, 1, 1), 2), Sphere(Vector3(1, 1, 3), 1)}

Planes == {Plane(Vector3(0, 3, 0), Vector3(0, 1, 0)), Plane(Vector3(0, 0, -2), Vector3(0, 0, 1))}

\* ------------------------------------------------------------------ scene
\* material::Material of a scene element: its three fields, told apart by
\* the element's name.
Material(name) == [surface |-> name, albedo |-> name, emission |-> name]

\* Box<Intersectable>: a Sphere, a Plane or the Mesh with its tree, each
\* with its own Material.
Element(kind, shape, name) == [kind |-> kind, shape |-> shape, material |-> Material(name)]

SceneElements ==
    {Element("sphere", Sphere(Vector3(3, 1, 1), 2), "sphere_a"),
     Element("sphere", Sphere(Vector3(1, 1, 3), 1), "sphere_b"),
     Element("plane", Plane(Vector3(0, 3, 0), Vector3(0, 1, 0)), "plane"),
     Element("mesh", [tree |-> "bvh"], "mesh")}

\* Scene.elements: lists of distinct elements
ElementLists ==
    {q \in UNION {[1..k -> SceneElements] : k \in 0..MaxElements} :
        \A i \in 1..Len(q) : \A j \in 1..Len(q) :
            q[i].material = q[j].material => i = j}

\* Intersectable::intersect of an element; the Mesh delegates to its tree.
ElementIntersect(e, bvh, mesh, ray, intersection) ==
    CASE e.kind = "sphere" -> SphereIntersect(e.shape, ray, intersection)
      [] e.kind = "plane"  -> PlaneIntersect(e.shape, ray, intersection)
      [] OTHER             -> LET r == intersect(bvh, mesh, ray, intersection)
                              IN  Result(r.ret, r.intersection)

\* The loop of Scene::intersect from element i on: element is the last one
\* that returned true (elements[0] before any did); trail keeps, for each
\* element called, what it returned and the record it left.
RECURSIVE ElementLoop(_, _, _, _, _, _, _, _)
\* Mutant: element is set by the first element that returns true only.
ElementNextFirstHit(elements, i, bvh, mesh, ray, element, trail, r) ==
    Strict(r, ElementLoop(elements, i + 1, bvh, mesh, ray, r.intersection,
                          IF r.ret /\ \A j \in 1..Len(trail) : ~trail[j].ret
                          THEN elements[i] ELSE element,
                          Append(trail, r)))

\* One turn of the loop, r being what elements[i].intersect returned.
ElementNext(elements, i, bvh, mesh, ray, element, trail, r) ==
    Strict(r, ElementLoop(elements, i + 1, bvh, mesh, ray, r.intersection,
                          IF r.ret THEN elements[i] ELSE element,
                          Append(trail, r)))

ElementLoop(elements, i, bvh, mesh, ray, intersection, element, trail) ==
    IF i > Len(elements) THEN [intersection |-> intersection, element |-> element, trail |-> trail]
    ELSE ElementNext(elements, i, bvh, mesh, ray, element, trail,
                     ElementIntersect(elements[i], bvh, mesh, ray, intersection))

\* The material resolution of Scene::intersect: the element's material on a
\* hit (its albedo times its texture at uv), the skybox's emission
\* otherwise.
Resolve(intersection, element, ray) ==
    IF intersection.hit
    THEN [intersection EXCEPT !.material =
              [surface  |-> element.material.surface,
               albedo   |-> [albedo |-> element.material.albedo, uv |-> intersection.uv],
               emission |-> element.material.emission]]
    ELSE [intersection EXCEPT !.material =
              [surface  |-> "new",
               albedo   |-> [albedo |-> "new", uv |-> Vector2Zero],
               emission |-> "skybox"]]

\* What Scene::intersect returns once the loop is over.
Resolved(looped, ray) ==
    [intersection |-> Resolve(looped.intersection, looped.element, ray),
     trail        |-> looped.trail]

\* Scene::intersect
SceneIntersect(elements, bvh, mesh, ray) ==
    Resolved(ElementLoop(elements, 1, bvh, mesh, ray, IntersectionEmpty, elements[1], <<>>), ray)

\* ------------------------------------------------------------------- state
VARIABLES
    phase,         \* "load": mesh read, no tree; "ready": tree built; "query": a ray query runs
    mesh,          \* the Mesh
    bvh,           \* the root BvhNode (BvhNode::empty before from_mesh)
    calls,         \* the from_face_indexes calls from_mesh made
    ray,           \* the query's Ray
    intersection,  \* the query's Hit Record
    ncalls,        \* intersection calls made on the Hit Record
    last,          \* the last intersection call: which, its result, the record before it
    elements,      \* Scene.elements
    trail,         \* Scene::intersect: each element's return and the record it left
    sample         \* the last sampler call: which, its inputs, what it computed

vars == <<phase, mesh, bvh, calls, ray, intersection, ncalls, last, elements, trail, sample>>

Call(op, ret, before, tests, face) ==
    [op |-> op, ret |-> ret, before |-> before, tests |-> tests, face |-> face]

NoCall == Call("none", FALSE, IntersectionEmpty, <<>>, -1)

\* A sampler's arguments, before it is called
Arguments(random, normal, roughness) ==
    [fn |-> "none", random |-> random, normal |-> normal, roughness |-> roughness]

NoSample == Arguments(<<Rat(0, 1), Rat(0, 1)>>, Vector3F(0, 0, 1), 0)

Init ==
    /\ phase = "load"
    /\ sample = NoSample
    /\ mesh \in Meshes
    /\ bvh = BvhNodeEmpty
    /\ calls = {}
    /\ ray = Ray(Vector3(0, 0, 0), Vector3(0, 0, 1))
    /\ intersection = IntersectionEmpty
    /\ ncalls = 0
    /\ last = NoCall
    /\ elements = <<>>
    /\ trail = <<>>

\* Scene load: BvhNode::from_mesh
FromMesh ==
    /\ phase = "load"
    /\ phase' = "ready"
    /\ bvh' = from_mesh(mesh)
    /\ calls' = BuildCalls(mesh, [i \in 1..Len(mesh.faces) |-> i - 1])
    /\ UNCHANGED <<mesh, ray, intersection, ncalls, last, elements, trail, sample>>

\* A ray query begins: a fresh Hit Record (Intersection::empty) for a ray.
NewQuery ==
    /\ phase = "ready"
    /\ phase' = "query"
    /\ \E r \in Rays : ray' = r
    /\ intersection' = IntersectionEmpty
    /\ ncalls' = 0
    /\ last' = NoCall
    /\ trail' = <<>>
    /\ UNCHANGED <<mesh, bvh, calls, elements, sample>>

\* The query ends: its Hit Record is discarded.
EndQuery ==
    /\ phase = "query"
    /\ phase' = "ready"
    /\ ray' = Ray(Vector3(0, 0, 0), Vector3(0, 0, 1))
    /\ intersection' = IntersectionEmpty
    /\ ncalls' = 0
    /\ last' = NoCall
    /\ trail' = <<>>
    /\ UNCHANGED <<mesh, bvh, calls, elements, sample>>

CanCall == phase = "query" /\ ncalls < MaxCalls

Record(op, r, tests, face) ==
    /\ intersection' = r.intersection
    /\ last' = Call(op, r.ret, intersection, tests, face)
    /\ ncalls' = ncalls + 1
    /\ UNCHANGED <<phase, mesh, bvh, calls, ray, elements, trail, sample>>

\* BvhNode::intersect on the root
BvhIntersect ==
    /\ CanCall
    /\ LET r == intersect(bvh, mesh, ray, intersection)
       IN  Record("bvh", Result(r.ret, r.intersection), r.tests, -1)

\* intersect_polygon on one face of the mesh
PolygonIntersect ==
    /\ CanCall
    /\ \E k \in 1..Len(mesh.faces) :
         Record("polygon", IntersectFace(mesh, k - 1, ray, intersection), <<>>, k - 1)

\* Sphere::intersect
SphereCall ==
    /\ CanCall
    /\ \E s \in Spheres :
         /\ SphereD(s, ray) <= 0 \/ IsSquare(SphereD(s, ray))
         /\ Record("sphere", SphereIntersect(s, ray, intersection), <<>>, -1)

\* Plane::intersect
PlaneCall ==
    /\ CanCall
    /\ \E p \in Planes : Record("plane", PlaneIntersect(p, ray, intersection), <<>>, -1)

Next == FromMesh \/ NewQuery \/ EndQuery \/ BvhIntersect \/ PolygonIntersect \/ SphereCall \/ PlaneCall

Spec == Init /\ [][Next]_vars

\* The samplers are pure functions of their arguments: they are checked on
\* their own, from states that hold no scene and the arguments of a call.
InitBrdf ==
    /\ phase = "brdf"
    /\ sample \in {Arguments(random, normal, roughness) :
                      random \in Randoms, normal \in Normals, roughness \in Roughnesses}
    /\ mesh = StripMesh(0)
    /\ bvh = BvhNodeEmpty
    /\ calls = {}
    /\ ray = Ray(Vector3(0, 0, 0), Vector3(0, 0, 1))
    /\ intersection = IntersectionEmpty
    /\ ncalls = 0
    /\ last = NoCall
    /\ elements = <<>>
    /\ trail = <<>>

Scene == <<phase, mesh, bvh, calls, ray, intersection, ncalls, last, elements, trail>>

\* importance_sample_diffuse
SampleDiffuse ==
    /\ phase = "brdf"
    /\ sample' = [fn |-> "diffuse", random |-> sample.random, normal |-> sample.normal,
                  roughness |-> sample.roughness,
                  out |-> importance_sample_diffuse(sample.random, sample.normal)]
    /\ UNCHANGED Scene

\* importance_sample_ggx
SampleGgx ==
    /\ phase = "brdf"
    /\ sample' = [fn |-> "ggx", random |-> sample.random, normal |-> sample.normal,
                  roughness |-> sample.roughness,
                  out |-> importance_sample_ggx(sample.random, sample.normal, sample.roughness)]
    /\ UNCHANGED Scene

NextBrdf == SampleDiffuse \/ SampleGgx

SpecBrdf == InitBrdf /\ [][NextBrdf]_vars

\* Scene queries are checked from every mesh and every list of elements:
\* the scene is loaded (from_mesh), then rays are resolved one at a time.
InitScene ==
    /\ phase = "load"
    /\ sample = NoSample
    /\ mesh \in Meshes
    /\ bvh = BvhNodeEmpty
    /\ calls = {}
    /\ ray = Ray(Vector3(0, 0, 0), Vector3(0, 0, 1))
    /\ intersection = IntersectionEmpty
    /\ ncalls = 0
    /\ last = NoCall
    /\ elements \in ElementLists
    /\ trail = <<>>

\* The query's ray and the record Scene::intersect returned for it.
Answer(r, resolved) ==
    /\ ray' = r
    /\ intersection' = resolved.intersection
    /\ trail' = resolved.trail

\* Scene::intersect for a ray; elements[0] panics on an empty list.
SceneQuery ==
    /\ phase = "ready"
    /\ elements # <<>>
    /\ phase' = "query"
    /\ \E r \in Rays :
         /\ \A i \in 1..Len(elements) :
                elements[i].kind = "sphere" =>
                    \/ SphereD(elements[i].shape, r) <= 0
                    \/ IsSquare(SphereD(elements[i].shape, r))
         /\ Answer(r, SceneIntersect(elements, bvh, mesh, r))
    /\ ncalls' = Len(elements)
    /\ UNCHANGED <<mesh, bvh, calls, last, elements, sample>>

NextScene == FromMesh \/ SceneQuery \/ EndQuery

SpecScene == InitScene /\ [][NextScene]_vars

\* ================================================================== claims
\* Helpers of the statements below.

\* intersect_polygon run on every face of the mesh in order, faces[i..], on
\* one Hit Record.
RECURSIVE BruteForce(_, _, _, _)
BruteForce(m, i, r, acc) ==
    IF i > Len(m.faces) THEN acc
    ELSE LET t == IntersectFace(m, i - 1, r, acc.intersection)
             next == Result(acc.ret \/ t.ret, t.intersection)
         IN  Strict(next, BruteForce(m, i + 1, r, next))

\* The faces the query's tests touched, and whether one accepted.
TestedFaces == {last.tests[i].face_index : i \in 1..Len(last.tests)}

SomeTestAccepted == \E i \in 1..Len(last.tests) : last.tests[i].ret

AcceptedTests == Cardinality({i \in 1..Len(last.tests) : last.tests[i].ret})

\* The nodes of a tree, and the faces held in the leaves of a subtree.
RECURSIVE Nodes(_)
Nodes(node) ==
    {node} \cup (IF node.children = <<>> THEN {}
                 ELSE UNION {Nodes(node.children[i]) : i \in 1..Len(node.children)})

RECURSIVE SubtreeFaces(_)
SubtreeFaces(node) ==
    {node.face_indexes[i] : i \in 1..Len(node.face_indexes)}
    \cup (IF node.children = <<>> THEN {}
          ELSE UNION {SubtreeFaces(node.children[i]) : i \in 1..Len(node.children)})

\* The faces in leaves reached through nodes whose bounding volumes all pass
\* the ray test.
RECURSIVE UnprunedFaces(_, _)
UnprunedFaces(node, r) ==
    IF ~intersect_ray(node.aabb, r) THEN {}
    ELSE {node.face_indexes[i] : i \in 1..Len(node.face_indexes)}
         \cup (IF node.children = <<>> THEN {}
               ELSE UNION {UnprunedFaces(node.children[i], r) : i \in 1..Len(node.children)})

FreshBvhQuery == last.op = "bvh" /\ last.before = IntersectionEmpty

\* C1: on a fresh Hit Record, BvhNode::intersect on the tree of from_mesh
\* leaves the distance that intersect_polygon run on every face of the mesh
\* leaves, and both report a hit or both report none.
C1_BvhMatchesBruteForce ==
    FreshBvhQuery =>
        LET brute == BruteForce(mesh, 1, ray, Result(FALSE, IntersectionEmpty))
        IN  /\ intersection.distance = brute.intersection.distance
            /\ last.ret = brute.ret

\* A fresh query on a tree with internal nodes that pruned some faces and
\* tightened the record more than once.
C1_Witness ==
    /\ FreshBvhQuery
    /\ bvh.children # <<>>
    /\ last.ret
    /\ AcceptedTests >= 2
    /\ TestedFaces # {} /\ TestedFaces # SubtreeFaces(bvh)

\* C2: no intersection call (intersect_polygon, Sphere::intersect,
\* Plane::intersect, BvhNode::intersect) increases the Hit Record's distance.
C2_DistanceNeverIncreases ==
    last.op # "none" => FLe(intersection.distance, last.before.distance)

\* A later call of a query tightened a record that an earlier call of
\* another kind had already tightened.
C2_Witness ==
    /\ ncalls >= 2
    /\ last.op = "sphere"
    /\ last.ret
    /\ last.before.distance # INF
    /\ ~last.before.hit
    /\ FLt(intersection.distance, last.before.distance)

\* C3: after BvhNode::intersect on a fresh Hit Record the hit flag is true
\* exactly when a face test accepted, which is exactly when the call
\* returned true.
C3_HitFlagIsAccumulatedTruth ==
    FreshBvhQuery =>
        /\ intersection.hit <=> SomeTestAccepted
        /\ intersection.hit <=> last.ret

\* C4: BvhNode::intersect returns true exactly when a face test of its
\* subtree accepted; when it returns false every field of the Hit Record is
\* as before; the faces tested are those under nodes whose bounding volumes
\* passed, so none under a failing node is tested.
C4_FalseLeavesRecordUnchanged ==
    last.op = "bvh" =>
        /\ last.ret <=> SomeTestAccepted
        /\ ~last.ret => intersection = last.before
        /\ ~intersect_ray(bvh.aabb, ray) => last.tests = <<>>
        /\ TestedFaces = UnprunedFaces(bvh, ray)

\* A query that returned false on a record holding an earlier hit, with some
\* faces tested and others pruned.
C4_Witness ==
    /\ last.op = "bvh"
    /\ ~last.ret
    /\ last.before.distance # INF
    /\ TestedFaces # {} /\ TestedFaces # SubtreeFaces(bvh)

\* The vertices of the faces held in the leaves of a subtree.
SubtreeVertexes(node) ==
    UNION {{VertexOf(mesh, FaceOf(mesh, f).v0), VertexOf(mesh, FaceOf(mesh, f).v1),
            VertexOf(mesh, FaceOf(mesh, f).v2)} : f \in SubtreeFaces(node)}

\* min <= p <= max on every axis
Contains(aabb, p) ==
    /\ FLe(aabb.left_bottom.x, FromInt(p.x)) /\ FLe(FromInt(p.x), aabb.right_top.x)
    /\ FLe(aabb.left_bottom.y, FromInt(p.y)) /\ FLe(FromInt(p.y), aabb.right_top.y)
    /\ FLe(aabb.left_bottom.z, FromInt(p.z)) /\ FLe(FromInt(p.z), aabb.right_top.z)

Inside(inner, outer) ==
    /\ FLe(outer.left_bottom.x, inner.left_bottom.x) /\ FLe(inner.right_top.x, outer.right_top.x)
    /\ FLe(outer.left_bottom.y, inner.left_bottom.y) /\ FLe(inner.right_top.y, outer.right_top.y)
    /\ FLe(outer.left_bottom.z, inner.left_bottom.z) /\ FLe(inner.right_top.z, outer.right_top.z)

Built == phase = "ready"

SeqSet(q) == {q[i] : i \in 1..Len(q)}

\* C5: every node of the tree of from_mesh is a Leaf (no children) or an
\* Internal node with exactly two children and no face indices.
C5_LeafOrInternal ==
    Built =>
        \A node \in Nodes(bvh) :
            \/ node.children = <<>>
            \/ Len(node.children) = 2 /\ node.face_indexes = <<>>

\* A built tree whose root has an internal child.
C5_Witness ==
    /\ Built
    /\ bvh.children # <<>>
    /\ \E i \in 1..Len(bvh.children) : bvh.children[i].children # <<>>
    /\ \E node \in Nodes(bvh) : node.face_indexes # <<>>

\* C6: over a non-empty mesh, every node's bounding volume has min <= max
\* on every axis and contains every vertex of every face held in a leaf of
\* the node's subtree; each child's volume lies inside its parent's.
C6_BoundingVolumeContainsSubtree ==
    (Built /\ mesh.faces # <<>>) =>
        \A node \in Nodes(bvh) :
            /\ FLe(node.aabb.left_bottom.x, node.aabb.right_top.x)
            /\ FLe(node.aabb.left_bottom.y, node.aabb.right_top.y)
            /\ FLe(node.aabb.left_bottom.z, node.aabb.right_top.z)
            /\ \A p \in SubtreeVertexes(node) : Contains(node.aabb, p)
            /\ \A i \in 1..Len(node.children) : Inside(node.children[i].aabb, node.aabb)

\* A built tree with an internal child whose volume is strictly smaller than
\* the root's.
C6_Witness ==
    /\ Built
    /\ \E i \in 1..Len(bvh.children) :
         /\ bvh.children[i].children # <<>>
         /\ bvh.children[i].aabb # bvh.aabb

\* C8 as stated: from_face_indexes makes a Leaf holding the given indices
\* verbatim exactly when it is given 4 or fewer faces; 5 or more faces make
\* an Internal node with two children.
C8_LeafIffAtMostFour ==
    \A c \in calls :
        /\ c.node.children = <<>> <=> Len(c.given) <= 4
        /\ c.node.children = <<>> => c.node.face_indexes = c.given
        /\ Len(c.given) >= 5 => Len(c.node.children) = 2

\* C8 amended: from_face_indexes makes a Leaf holding the given indices
\* verbatim exactly when it is given 5 or fewer faces; 6 or more faces make
\* an Internal node with two children.
C8_LeafIffAtMostFive ==
    \A c \in calls :
        /\ c.node.children = <<>> <=> Len(c.given) <= 5
        /\ c.node.children = <<>> => c.node.face_indexes = c.given
        /\ Len(c.given) >= 6 => Len(c.node.children) = 2

\* from_face_indexes was given 5 faces in one call and 6 in another, the
\* 5 in an order that is not ascending.
C8_Witness ==
    /\ \E c \in calls : Len(c.given) = 6 /\ c.node.children # <<>>
    /\ \E c \in calls :
         /\ Len(c.given) = 5
         /\ c.node.children = <<>>
         /\ \E i \in 1..4 : c.given[i] > c.given[i + 1]

\* C9: a split of n faces gives the first child floor(n/2) faces and the
\* second the other n - floor(n/2); both are non-empty and smaller than n;
\* every face of the first child has a coordinate sum, on the chosen axis,
\* <= that of every face of the second child.
C9_SplitAtMidpointBySum ==
    \A c \in calls :
        c.node.children # <<>> =>
            LET n      == Len(c.given)
                first  == SubtreeFaces(c.node.children[1])
                second == SubtreeFaces(c.node.children[2])
                axis   == SplitAxis(c.node.aabb)
            IN  /\ Cardinality(first) = n \div 2
                /\ Cardinality(second) = n - (n \div 2)
                /\ first \cup second = SeqSet(c.given)
                /\ first # {} /\ second # {}
                /\ Cardinality(first) < n /\ Cardinality(second) < n
                /\ \A f \in first : \A g \in second :
                       FaceSum(mesh, f, axis) <= FaceSum(mesh, g, axis)

\* A split of an odd number of faces that were not given in ascending order
\* of their sums, and a split below the root.
C9_Witness ==
    /\ \E c \in calls :
         /\ c.node.children # <<>>
         /\ Len(c.given) % 2 = 1
         /\ \E i \in 1..(Len(c.given) - 1) :
              FaceSum(mesh, c.given[i], SplitAxis(c.node.aabb))
                  > FaceSum(mesh, c.given[i + 1], SplitAxis(c.node.aabb))
    /\ \E c \in calls : c.node.children # <<>> /\ c.node # bvh

\* C7: intersect_polygon accepts only a strictly positive t strictly below
\* the record's distance, so a face at exactly the current distance does not
\* replace the earlier hit; a rejected test leaves the record unchanged.
C7_StrictlyNearerOnly ==
    last.op = "polygon" =>
        /\ last.ret => /\ FGt(intersection.distance, FromInt(0))
                       /\ FLt(intersection.distance, last.before.distance)
        /\ ~last.ret => intersection = last.before

Sampling == sample.fn # "none"

\* C10 as stated: both samplers choose the same up vector for a normal, and
\* it is (0,1,0) unless |normal.x| exceeds EPS, when it is (1,0,0).
C10_UpIsYUnlessXExceedsEps ==
    Sampling =>
        /\ sample.out.up = UpDiffuse(sample.normal)
        /\ sample.out.up = UpGgx(sample.normal)
        /\ sample.out.up = IF FGt(FAbs(sample.normal.x), EPS)
                           THEN Vector3F(1, 0, 0) ELSE Vector3F(0, 1, 0)

\* C10 amended: both samplers choose the same up vector for a normal, and
\* it is (0,1,0) when |normal.x| exceeds EPS and (1,0,0) otherwise.
C10_UpIsXUnlessXExceedsEps ==
    Sampling =>
        /\ sample.out.up = UpDiffuse(sample.normal)
        /\ sample.out.up = UpGgx(sample.normal)
        /\ sample.out.up = IF FGt(FAbs(sample.normal.x), EPS)
                           THEN Vector3F(0, 1, 0) ELSE Vector3F(1, 0, 0)

\* The GGX sampler ran on a normal whose x is exactly the threshold and
\* whose y is well above it.
C10_Witness ==
    /\ sample.fn = "ggx"
    /\ FAbs(sample.normal.x) = EPS
    /\ sample.normal.y = FromInt(1)
    /\ sample.out.up = Vector3F(1, 0, 0)

\* The face indices held in the leaves of a subtree, leaf after leaf in
\* child order, repetitions kept.
RECURSIVE LeafFaces(_)
LeafFaces(node) ==
    IF node.children = <<>> THEN node.face_indexes
    ELSE IF Len(node.children) = 1 THEN LeafFaces(node.children[1])
    ELSE LeafFaces(node.children[1]) \o LeafFaces(node.children[2])

Leaves(node) == {l \in Nodes(node) : l.children = <<>>}

\* C11: the leaves of the tree of from_mesh partition the mesh's faces:
\* every index in 0..faces.len()-1 is held by exactly one leaf, exactly
\* once, and no leaf holds an index outside that range.
C11_LeavesPartitionFaces ==
    Built =>
        LET held == LeafFaces(bvh)
            n    == Len(mesh.faces)
        IN  /\ Len(held) = n
            /\ SeqSet(held) = 0..(n - 1)
            /\ \A i \in 1..Len(held) : \A j \in 1..Len(held) :
                   held[i] = held[j] => i = j
            /\ \A l \in Leaves(bvh) : SeqSet(l.face_indexes) \subseteq 0..(n - 1)

\* A built tree with at least three leaves, one of which holds its faces in
\* an order other than ascending: the sort moved faces across the split.
C11_Witness ==
    /\ Built
    /\ Cardinality(Leaves(bvh)) >= 3
    /\ \E l \in Leaves(bvh) :
         \E i \in 1..(Len(l.face_indexes) - 1) :
             l.face_indexes[i] > l.face_indexes[i + 1]
    /\ \E i \in 1..(Len(LeafFaces(bvh)) - 1) :
         LeafFaces(bvh)[i] > LeafFaces(bvh)[i + 1]

QueryResolved == phase = "query" /\ trail # <<>>

\* C12: when Scene::intersect returns a record with hit = true over a
\* non-empty element list, the record's material is that of the last
\* element in list order whose intersect returned true, and that element's
\* call left the record's final distance, position and normal.
C12_MaterialOfLastTrueElement ==
    (QueryResolved /\ intersection.hit) =>
        \E k \in 1..Len(trail) :
            /\ trail[k].ret
            /\ \A j \in (k + 1)..Len(trail) : ~trail[j].ret
            /\ intersection.material.surface = elements[k].material.surface
            /\ intersection.material.albedo.albedo = elements[k].material.albedo
            /\ intersection.material.emission = elements[k].material.emission
            /\ intersection.distance = trail[k].intersection.distance
            /\ intersection.position = trail[k].intersection.position
            /\ intersection.normal = trail[k].intersection.normal

\* A resolved query of three elements: the first hit, the Mesh then hit
\* nearer and superseded it, the third did not hit.
C12_Witness ==
    /\ QueryResolved
    /\ intersection.hit
    /\ Len(trail) = 3
    /\ trail[1].ret /\ trail[2].ret /\ ~trail[3].ret
    /\ elements[2].kind = "mesh"
    /\ FLt(trail[2].intersection.distance, trail[1].intersection.distance)
    /\ intersection.material.surface = "mesh"

====
